---- MODULE Spec2Model ----
(***************************************************************************)
(* Model of src/main.rs: the similarity graph built by buildGraph from a   *)
(* stream of CSV rows, the adjacency structure GameGraph with addEdge, and *)
(* the three queries bfs, degreeDistribution and degreeCentrality.         *)
(*                                                                         *)
(* Maps (HashMap) are TLA+ functions whose DOMAIN is the key set; a        *)
(* HashSet is a set.  The iteration order of a HashMap or HashSet is       *)
(* unspecified, so every loop over one takes its order as an input.        *)
(* criticScore and userScore are parsed but never read; they are left out. *)
(***************************************************************************)
EXTENDS Integers, Sequences, FiniteSets, TLC

\* Longest input (number of CSV rows) buildGraph is run on.
MaxRecords == 3

\* record.get(i) of a row that has no field i.
None == "<none>"

\* Field values of the rows the reader yields.
RowNames == {"A", "B", "C"}
RowGenres == {None, "RPG", "Action"}
RowPublishers == {"X", "Y"}

\* Names the callers of addEdge and bfs use.
NodeNames == {"A", "B", "C", "D"}

Rows == [name : RowNames, genre : RowGenres, publisher : RowPublishers]

VARIABLES
    games,      \* buildGraph: HashMap name -> VideoGame
    adjList,    \* GameGraph.adjList: HashMap name -> HashSet of names
    records,    \* the VideoGames built from the rows read so far, in order
    pc,         \* "build" | "idle" | "bfs_while" | "bfs_for"
    start,      \* bfs: the argument
    distances,  \* bfs: HashMap name -> distance
    queue,      \* bfs: VecDeque of names
    current,    \* bfs: the node popped last
    neighbors,  \* bfs: the neighbours of current the for loop has yet to see
    ret         \* the value the last query returned

vars == <<games, adjList, records, pc, start, distances, queue, current,
          neighbors, ret>>

------------------------------------------------------------------------------
\* Helpers for maps and iteration orders.

EmptyMap == << >>

NoRet == [op |-> "none", arg |-> "", val |-> EmptyMap]

\* Option::unwrap_or
UnwrapOr(opt, default) == IF opt = None THEN default ELSE opt

\* HashMap::insert: the value of an existing key is replaced.
MapInsert(m, k, v) == [x \in DOMAIN m \cup {k} |-> IF x = k THEN v ELSE m[x]]

\* HashMap::entry(k).or_insert(v): an existing value is kept.
EntryOrInsert(m, k, v) == IF k \in DOMAIN m THEN m ELSE MapInsert(m, k, v)

\* The orders in which an iterator may yield the elements of S.
Orders(S) ==
    {s \in [1..Cardinality(S) -> S] :
        \A i, j \in 1..Cardinality(S) : i # j => s[i] # s[j]}

------------------------------------------------------------------------------
\* GameGraph

addEdgeOneWay(adj, game1, game2) ==
    LET a1 == EntryOrInsert(adj, game1, {})
    IN  [a1 EXCEPT ![game1] = @ \cup {game2}]

addEdgeOverwrite(adj, game1, game2) ==
    LET a1 == MapInsert(adj, game1, {game2})
    IN  MapInsert(a1, game2, {game1})

addEdge(adj, game1, game2) ==
    LET a1 == EntryOrInsert(adj, game1, {})
        a2 == [a1 EXCEPT ![game1] = @ \cup {game2}]
        a3 == EntryOrInsert(a2, game2, {})
    IN  [a3 EXCEPT ![game2] = @ \cup {game1}]

IncrementSet(distribution, degree) == MapInsert(distribution, degree, 1)

\* *distribution.entry(degree).or_insert(0) += 1
Increment(distribution, degree) ==
    LET d1 == EntryOrInsert(distribution, degree, 0)
    IN  [d1 EXCEPT ![degree] = @ + 1]

RECURSIVE degreeDistributionLoop(_, _, _)
degreeDistributionLoop(adj, order, distribution) ==
    IF order = << >> THEN distribution
    ELSE LET degree == Cardinality(adj[Head(order)])
         IN  degreeDistributionLoop(adj, Tail(order),
                                    Increment(distribution, degree))

degreeDistribution(adj, order) == degreeDistributionLoop(adj, order, EmptyMap)

CentralityInsertIndex(centrality, node, nbrs) ==
    MapInsert(centrality, node, Cardinality(DOMAIN centrality))

\* centrality.insert(node.clone(), neighbors.len())
CentralityInsert(centrality, node, nbrs) ==
    MapInsert(centrality, node, Cardinality(nbrs))

RECURSIVE degreeCentralityLoop(_, _, _)
degreeCentralityLoop(adj, order, centrality) ==
    IF order = << >> THEN centrality
    ELSE LET node == Head(order)
         IN  degreeCentralityLoop(adj, Tail(order),
                                  CentralityInsert(centrality, node, adj[node]))

degreeCentrality(adj, order) == degreeCentralityLoop(adj, order, EmptyMap)

------------------------------------------------------------------------------
\* buildGraph

SimilarBoth(otherGame, genre, publisher) ==
    otherGame.genre = genre /\ otherGame.publisher = publisher

\* otherGame.genre == genre || otherGame.publisher == publisher
Similar(otherGame, genre, publisher) ==
    otherGame.genre = genre \/ otherGame.publisher = publisher

IsOtherAlways(otherName, name) == TRUE

\* otherName != &name
IsOther(otherName, name) == otherName # name

GamesInsertKeep(gs, name, game) == EntryOrInsert(gs, name, game)

\* games.insert(name.clone(), game)
GamesInsert(gs, name, game) == MapInsert(gs, name, game)

\* for otherName in games.keys() { ... }
RECURSIVE LinkLoop(_, _, _, _, _, _)
LinkLoop(adj, gs, order, name, genre, publisher) ==
    IF order = << >> THEN adj
    ELSE LET otherName == Head(order)
             adj1 == IF /\ IsOther(otherName, name)
                        /\ Similar(gs[otherName], genre, publisher)
                     THEN addEdge(adj, name, otherName)
                     ELSE adj
         IN  LinkLoop(adj1, gs, Tail(order), name, genre, publisher)

\* One iteration of the loop over rdr.records().
Insert(row) ==
    /\ pc = "build"
    /\ Len(records) < MaxRecords
    /\ LET name == UnwrapOr(row.name, "")
           genre == UnwrapOr(row.genre, "")
           publisher == UnwrapOr(row.publisher, "")
           game == [name |-> name, genre |-> genre, publisher |-> publisher]
           games1 == GamesInsert(games, name, game)
       IN  /\ games' = games1
           /\ \E order \in Orders(DOMAIN games1) :
                  adjList' = LinkLoop(adjList, games1, order,
                                      name, genre, publisher)
           /\ records' = Append(records, game)
    /\ UNCHANGED <<pc, start, distances, queue, current, neighbors, ret>>

\* The reader is exhausted: Ok(graph).
ReturnGraph ==
    /\ pc = "build"
    /\ pc' = "idle"
    /\ UNCHANGED <<games, adjList, records, start, distances, queue, current,
                   neighbors, ret>>

------------------------------------------------------------------------------
\* Calls on a GameGraph.  A graph is built first and queried afterwards.

AddEdge(game1, game2) ==
    /\ pc = "idle"
    /\ ret = NoRet
    /\ adjList' = addEdge(adjList, game1, game2)
    /\ UNCHANGED <<games, records, pc, start, distances, queue, current,
                   neighbors, ret>>

DegreeDistribution ==
    /\ pc = "idle"
    /\ \E order \in Orders(DOMAIN adjList) :
           ret' = [op |-> "degreeDistribution", arg |-> "",
                   val |-> degreeDistribution(adjList, order)]
    /\ UNCHANGED <<games, adjList, records, pc, start, distances, queue,
                   current, neighbors>>

DegreeCentrality ==
    /\ pc = "idle"
    /\ \E order \in Orders(DOMAIN adjList) :
           ret' = [op |-> "degreeCentrality", arg |-> "",
                   val |-> degreeCentrality(adjList, order)]
    /\ UNCHANGED <<games, adjList, records, pc, start, distances, queue,
                   current, neighbors>>

NextDistanceLen(dist, cur) == Cardinality(DOMAIN dist)

\* distances[&current] + 1
NextDistance(dist, cur) == dist[cur] + 1

BfsCall(s) ==
    /\ pc = "idle"
    /\ start' = s
    /\ distances' = MapInsert(EmptyMap, s, 0)
    /\ queue' = <<s>>
    /\ pc' = "bfs_while"
    /\ UNCHANGED <<games, adjList, records, current, neighbors, ret>>

\* while let Some(current) = queue.pop_front() { if let Some(neighbors) ...
BfsPop ==
    /\ pc = "bfs_while"
    /\ queue # << >>
    /\ current' = Head(queue)
    /\ queue' = Tail(queue)
    /\ IF Head(queue) \in DOMAIN adjList /\ adjList[Head(queue)] # {}
       THEN neighbors' = adjList[Head(queue)] /\ pc' = "bfs_for"
       ELSE neighbors' = {} /\ pc' = "bfs_while"
    /\ UNCHANGED <<games, adjList, records, start, distances, ret>>

\* One iteration of for neighbor in neighbors.
BfsNeighbor(neighbor) ==
    /\ pc = "bfs_for"
    /\ neighbor \in neighbors
    /\ neighbors' = neighbors \ {neighbor}
    /\ IF neighbor \notin DOMAIN distances
       THEN /\ distances' = MapInsert(distances, neighbor,
                                      NextDistance(distances, current))
            /\ queue' = Append(queue, neighbor)
       ELSE UNCHANGED <<distances, queue>>
    /\ pc' = IF neighbors' = {} THEN "bfs_while" ELSE "bfs_for"
    /\ UNCHANGED <<games, adjList, records, start, current, ret>>

\* The queue is empty: return distances.
BfsReturn ==
    /\ pc = "bfs_while"
    /\ queue = << >>
    /\ ret' = [op |-> "bfs", arg |-> start, val |-> distances]
    /\ pc' = "idle"
    /\ start' = ""
    /\ distances' = EmptyMap
    /\ current' = ""
    /\ neighbors' = {}
    /\ UNCHANGED <<games, adjList, records, queue>>

------------------------------------------------------------------------------
\* Specifications.

InitLocals ==
    /\ games = EmptyMap
    /\ adjList = EmptyMap
    /\ records = << >>
    /\ start = ""
    /\ distances = EmptyMap
    /\ queue = << >>
    /\ current = ""
    /\ neighbors = {}
    /\ ret = NoRet

\* main: buildGraph over a file, then the aggregate queries.
Init == InitLocals /\ pc = "build"

Next ==
    \/ \E row \in Rows : Insert(row)
    \/ ReturnGraph
    \/ DegreeDistribution
    \/ DegreeCentrality

Spec == Init /\ [][Next]_vars

\* The tests: a graph made by addEdge calls, then a query.
InitApi == InitLocals /\ pc = "idle"

NextApi ==
    \/ \E game1, game2 \in NodeNames : AddEdge(game1, game2)
    \/ \E s \in NodeNames : BfsCall(s)
    \/ BfsPop
    \/ \E neighbor \in NodeNames : BfsNeighbor(neighbor)
    \/ BfsReturn
    \/ DegreeDistribution
    \/ DegreeCentrality

SpecApi == InitApi /\ [][NextApi]_vars

------------------------------------------------------------------------------
\* Definitions the properties are stated with.

\* The neighbours of n, none when n is not a key.
Nbrs(adj, n) == IF n \in DOMAIN adj THEN adj[n] ELSE {}

Game(n, g, p) == [name |-> n, genre |-> g, publisher |-> p]

RecordNameSet == {records[i].name : i \in 1..Len(records)}

DistinctNames ==
    \A i, j \in 1..Len(records) : i # j => records[i].name # records[j].name

\* The last record with name n among the first k records.
LatestBefore(n, k) ==
    LET idx == {i \in 1..k : records[i].name = n}
    IN  records[CHOOSE i \in idx : \A j \in idx : j <= i]

\* Nodes at most k edges away from s.
RECURSIVE Within(_, _, _)
Within(adj, s, k) ==
    IF k = 0 THEN {s}
    ELSE LET W == Within(adj, s, k - 1)
         IN  W \cup UNION {Nbrs(adj, n) : n \in W}

Reachable(adj, s) == Within(adj, s, Cardinality(NodeNames))

MinDistance(adj, s, n) ==
    CHOOSE k \in 0..Cardinality(NodeNames) :
        /\ n \in Within(adj, s, k)
        /\ \A j \in 0..(k - 1) : n \notin Within(adj, s, j)

RECURSIVE SumValues(_, _)
SumValues(m, keys) ==
    IF keys = {} THEN 0
    ELSE LET k == CHOOSE x \in keys : TRUE
         IN  m[k] + SumValues(m, keys \ {k})

Chain == addEdge(addEdge(addEdge(EmptyMap, "A", "B"), "B", "C"), "C", "D")
Cycle == addEdge(Chain, "D", "A")
Star == addEdge(addEdge(addEdge(EmptyMap, "A", "B"), "A", "C"), "A", "D")

------------------------------------------------------------------------------
\* C1 (Similarity rule): when the records ingested so far have pairwise
\* distinct names, two of their names are joined by an edge exactly when the
\* two records have equal genre or equal publisher, and the graph holds no
\* other node or edge.
C1_SimilarityRule ==
    DistinctNames =>
        /\ \A i, j \in 1..Len(records) :
              i # j =>
                 ( records[j].name \in Nbrs(adjList, records[i].name)
                   <=> \/ records[i].genre = records[j].genre
                       \/ records[i].publisher = records[j].publisher )
        /\ \A n \in DOMAIN adjList :
              n \in RecordNameSet /\ adjList[n] \subseteq RecordNameSet \ {n}

C1_Witness ==
    /\ records = <<Game("A", "RPG", "X"), Game("B", "RPG", "Y"),
                   Game("C", "Action", "Y")>>
    /\ adjList = addEdge(addEdge(EmptyMap, "A", "B"), "B", "C")

\* The empty strings of two rows without a genre are equal.
C1_WitnessEmpty ==
    /\ records = <<Game("A", "", "X"), Game("B", "", "Y")>>
    /\ "B" \in Nbrs(adjList, "A")

\* C2 (BFS correctness): bfs from a node of the graph returns exactly the
\* nodes reachable from it, each with its minimum edge-count distance,
\* whatever order the neighbours were iterated in.
C2_BfsCorrect ==
    (ret.op = "bfs" /\ ret.arg \in DOMAIN adjList) =>
        /\ DOMAIN ret.val = Reachable(adjList, ret.arg)
        /\ ret.val[ret.arg] = 0
        /\ \A n \in DOMAIN ret.val :
              ret.val[n] = MinDistance(adjList, ret.arg, n)

C2_Witness ==
    /\ adjList = Chain
    /\ ret = [op |-> "bfs", arg |-> "A",
              val |-> [n \in NodeNames |->
                         CASE n = "A" -> 0 [] n = "B" -> 1
                           [] n = "C" -> 2 [] OTHER -> 3]]

\* C3 (BFS on an unknown node): bfs from a name that is not a node of the
\* graph returns the empty mapping.
C3_BfsUnknownEmpty ==
    (ret.op = "bfs" /\ ret.arg \notin DOMAIN adjList) => ret.val = EmptyMap

\* C4 (Node presence after insert): the name of every ingested record is a
\* key of the adjacency structure.
C4_NodePresent ==
    \A i \in 1..Len(records) : records[i].name \in DOMAIN adjList

\* C5 (Symmetry): B is in A's adjacency set exactly when A is in B's.
C5_Symmetry ==
    \A a, b \in NodeNames : b \in Nbrs(adjList, a) <=> a \in Nbrs(adjList, b)

C5_Witness ==
    /\ adjList = addEdge(addEdge(EmptyMap, "A", "B"), "B", "C")
    /\ "B" \in adjList["A"] /\ "A" \in adjList["B"]
    /\ "C" \in adjList["B"] /\ "B" \in adjList["C"]

\* C6 (Degree distribution): degreeDistribution has a key d exactly when some
\* node has d neighbours, its value at d is the number of such nodes, and the
\* values sum to the number of nodes.
C6_DegreeHistogram ==
    ret.op = "degreeDistribution" =>
        /\ DOMAIN ret.val = {Cardinality(adjList[n]) : n \in DOMAIN adjList}
        /\ \A d \in DOMAIN ret.val :
              ret.val[d] =
                  Cardinality({n \in DOMAIN adjList :
                                  Cardinality(adjList[n]) = d})
        /\ SumValues(ret.val, DOMAIN ret.val) = Cardinality(DOMAIN adjList)

C6_Witness ==
    /\ adjList = Cycle
    /\ ret.op = "degreeDistribution"
    /\ DOMAIN ret.val = {2}
    /\ ret.val[2] = 4

\* C7 (Degree centrality): degreeCentrality has exactly the nodes of the
\* graph as keys and maps each to its number of neighbours.
C7_CentralityCoverage ==
    ret.op = "degreeCentrality" =>
        /\ DOMAIN ret.val = DOMAIN adjList
        /\ \A n \in DOMAIN adjList : ret.val[n] = Cardinality(adjList[n])

C7_Witness ==
    /\ adjList = Star
    /\ ret.op = "degreeCentrality"
    /\ ret.val = [n \in NodeNames |-> IF n = "A" THEN 3 ELSE 1]

\* C8 (Insertion monotonicity): ingesting a record removes no node and no
\* edge: every key stays a key and every adjacency set only grows.
C8_Monotonic ==
    [][ /\ DOMAIN adjList \subseteq DOMAIN adjList'
        /\ \A n \in DOMAIN adjList : adjList[n] \subseteq adjList'[n]
      ]_<<adjList, records>>

C8_Witness ==
    /\ records = <<Game("A", "RPG", "X"), Game("B", "RPG", "Y"),
                   Game("C", "Action", "X")>>
    /\ adjList["A"] = {"B", "C"}

\* C9 (No self-loops): no node of a graph made by buildGraph is its own
\* neighbour, also when a name is ingested more than once.
C9_NoSelfLoop ==
    \A n \in DOMAIN adjList : n \notin adjList[n]

C9_Witness ==
    /\ Len(records) = 3
    /\ records[1].name = "A"
    /\ records[2].name = "B"
    /\ records[3].name = "A"
    /\ records[3].genre = records[1].genre
    /\ records[3].genre = records[2].genre
    /\ adjList["A"] = {"B"}

\* C10 as stated: a record B ingested after name A was ingested twice with
\* different fields is linked to A when it matches the fields of A's first
\* record.
C10_ComparesEveryRecord ==
    \A i, j, k \in 1..Len(records) :
        ( /\ i < j /\ j < k
          /\ records[i].name = records[j].name
          /\ records[i] # records[j]
          /\ records[k].name # records[i].name
          /\ \/ records[k].genre = records[i].genre
             \/ records[k].publisher = records[i].publisher )
        => records[k].name \in Nbrs(adjList, records[i].name)

\* C10 (amended): ingesting a record compares it with the latest record of
\* every other name: the step links the new name to exactly those other
\* names whose most recently ingested record has its genre or its publisher
\* (an earlier record of a name ingested again is not compared), and it
\* changes no other adjacency.
C10_ComparesLatestRecord ==
    [][ records' # records =>
          LET k == Len(records)
              new == records'[k + 1]
              linked == {o \in RecordNameSet \ {new.name} :
                            \/ LatestBefore(o, k).genre = new.genre
                            \/ LatestBefore(o, k).publisher = new.publisher}
          IN  /\ Nbrs(adjList', new.name)
                     = Nbrs(adjList, new.name) \cup linked
              /\ \A o \in (DOMAIN adjList' \cup DOMAIN adjList) \ {new.name} :
                     Nbrs(adjList', o)
                         = Nbrs(adjList, o)
                               \cup (IF o \in linked THEN {new.name} ELSE {})
      ]_<<adjList, records>>

C10_Witness ==
    /\ records = <<Game("A", "RPG", "X"), Game("A", "Action", "Y"),
                   Game("B", "RPG", "X")>>
    /\ "B" \notin Nbrs(adjList, "A")
    /\ adjList = EmptyMap

====
